---- MODULE Spec2Model ----
(***************************************************************************)
(* Salary predictor: the Streamlit app (src/app.py) and the offline        *)
(* trainer (src/train_model.py).                                           *)
(*                                                                         *)
(* Four specifications share the module:                                   *)
(*   Spec           the app process: reruns of main() driven by widget     *)
(*                  changes and button clicks, with the cached pipeline;   *)
(*   SpecValidate   the app together with direct calls of validate_age and *)
(*                  validate_experience on arbitrary integers;             *)
(*   SpecPipeline   repeated predict calls on a loaded pipeline, on rows   *)
(*                  that may hold categories outside the vocabulary;       *)
(*   SpecTrainer    the trainer script: row synthesis, fit, dump.          *)
(*                                                                         *)
(* Python floats are modelled as exact rationals in lowest terms           *)
(* ([num, den], den > 0), so that "x / 12" is a division and the           *)
(* two-decimal formatting of the display is a rounding.                    *)
(***************************************************************************)
EXTENDS Integers, Sequences, FiniteSets, TLC

VARIABLES
    file,       \* salary_prediction_pipeline.pkl on disk: {} or {pipeline}
    cache,      \* st.cache_resource store of load_model: {} or {pipeline}
    loads,      \* the pipelines read from disk by load_model's body, in order
    session,    \* "closed" before the first run of main(), then "open";
                \* "imported" when app.py is imported and main() never runs
    widgets,    \* the widget values of the session
    out,        \* what the last run of main() computed and rendered
    vcall,      \* last direct call of the two validators
    pipeline,   \* SpecPipeline: the pipeline object under test
    pcall,      \* SpecPipeline: the last predict call
    probe,      \* SpecPipeline: the row whose predictions are compared
    between,    \* SpecPipeline: predict calls on other rows since the probe's first
    tpc,        \* trainer script position
    data        \* trainer: a row of the synthetic dataset

vars == <<file, cache, loads, session, widgets, out, vcall,
          pipeline, pcall, probe, between, tpc, data>>

appVars == <<file, cache, loads, session, widgets, out>>
harnessVars == <<pipeline, pcall, probe, between>>
trainerVars == <<tpc, data>>

-----------------------------------------------------------------------------
(* Bounds of the model *)

\* fits of the trainer that are distinguished (np.random is unseeded)
MaxSeed == 1
\* the noise term ranges over -MaxNoise..MaxNoise standard deviations
MaxNoise == 1
\* predict calls on other rows counted between two calls on the probe row
MaxBetween == 2

-----------------------------------------------------------------------------
(* Float arithmetic, as exact rationals in lowest terms *)

Abs(n) == IF n < 0 THEN -n ELSE n

RECURSIVE GCD(_, _)
GCD(a, b) == IF b = 0 THEN a ELSE GCD(b, a % b)

Frac(n, d) ==
    LET g == GCD(Abs(n), d)
    IN  [num |-> n \div g, den |-> d \div g]

Add(a, b) == Frac(a.num * b.den + b.num * a.den, a.den * b.den)

Mul(a, b) ==
    LET g1 == GCD(Abs(a.num), b.den)
        g2 == GCD(Abs(b.num), a.den)
    IN  Frac((a.num \div g1) * (b.num \div g2), (a.den \div g2) * (b.den \div g1))

\* x / k for a positive integer k
Div(a, k) == Mul(a, Frac(1, k))

\* format(x, ".2f"): the value in hundredths, by long division, a tie going
\* to the even digit
Format2(q) ==
    LET n == Abs(q.num)
        whole == n \div q.den
        r0 == n % q.den
        d1 == (r0 * 10) \div q.den
        r1 == (r0 * 10) % q.den
        d2 == (r1 * 10) \div q.den
        r2 == (r1 * 10) % q.den
        down == whole * 100 + d1 * 10 + d2
        up == IF 2 * r2 > q.den \/ (2 * r2 = q.den /\ down % 2 = 1) THEN 1 ELSE 0
    IN  (IF q.num < 0 THEN -1 ELSE 1) * (down + up)

\* f"{symbol} {x:,.2f}" and f"{symbol} {x:.2f}": the text shown
FormatMoney(symbol, q, grouped) ==
    [symbol |-> symbol, hundredths |-> Format2(q), grouped |-> grouped]

\* DataFrame.to_csv writes a float as its shortest repr, which reads back as
\* the same float: the field denotes the value itself
CsvFloat(q) == Frac(q.num, q.den)

RECURSIVE SumOver(_, _)
SumOver(S, f) ==
    IF S = {} THEN 0
    ELSE LET x == CHOOSE y \in S : TRUE
         IN  f[x] + SumOver(S \ {x}, f)

-----------------------------------------------------------------------------
(* Validation (app.py) *)

AgeMsg == "Age must be between 18 and 100"
NegativeMsg == "Experience cannot be negative"
ExceedMsg == "Experience cannot exceed (Age - 16) years"
\* the texts of st.error and st.success, without their leading emoji
FixMsg == "Please fix the validation errors above before predicting."
SuccessMsg == "Prediction completed!"

\* validate_age enforcing the bound its message states
validate_age_upto100(age) ==
    [valid |-> (18 <= age /\ age <= 100), msg |-> AgeMsg]

validate_age(age) ==
    [valid |-> (18 <= age /\ age <= 60), msg |-> AgeMsg]

\* validate_experience with its two tests in the other order
validate_experience_swapped(experience, age) ==
    IF experience > age - 16 THEN [valid |-> FALSE, msg |-> ExceedMsg]
    ELSE IF experience < 0 THEN [valid |-> FALSE, msg |-> NegativeMsg]
    ELSE [valid |-> TRUE, msg |-> ""]

validate_experience(experience, age) ==
    IF experience < 0 THEN [valid |-> FALSE, msg |-> NegativeMsg]
    ELSE IF experience > age - 16 THEN [valid |-> FALSE, msg |-> ExceedMsg]
    ELSE [valid |-> TRUE, msg |-> ""]

-----------------------------------------------------------------------------
(* The pipeline (train_model.py) *)

GenderChoices == {"Male", "Female"}
EducationChoices == {"High School", "Bachelor", "Master", "PhD"}
JobChoices == {"Developer", "Data Scientist", "Manager", "Analyst", "Engineer"}

numeric_features == {"Age", "Years of Experience"}
categorical_features == {"Gender", "Education Level", "Job Title"}

\* X = data[[...]]: the columns the pipeline is fitted on
XColumns == {"Age", "Gender", "Education Level", "Job Title", "Years of Experience"}

\* the values np.random.choice draws from, per column
TrainVocabulary(col) ==
    CASE col = "Gender" -> GenderChoices
      [] col = "Education Level" -> EducationChoices
      [] col = "Job Title" -> JobChoices

\* OneHotEncoder(): the library's default for handle_unknown
handle_unknown_error == "error"

\* OneHotEncoder(handle_unknown='ignore')
handle_unknown == "ignore"

\* pipeline.fit(X, y): the fitted state.  The estimates depend on the random
\* draws; seed distinguishes the fits.  Every value of a vocabulary is taken
\* to occur among the 300 draws, so categories_ is the vocabulary itself.
fit(seed) ==
    [ feature_names_in_ |-> XColumns,
      handle_unknown |-> handle_unknown,
      mean_ |-> ("Age" :> 40 + seed) @@ ("Years of Experience" :> 17),
      scale_ |-> ("Age" :> 11) @@ ("Years of Experience" :> 10),
      categories_ |-> [c \in categorical_features |-> TrainVocabulary(c)],
      coef_num |-> ("Age" :> 33000 + 7 * seed) @@ ("Years of Experience" :> 150000 - 13 * seed),
      coef_cat |->
          ("Gender" :> (("Male" :> 1200 + seed) @@ ("Female" :> -1200 - seed)))
       @@ ("Education Level" :>
              (("High School" :> -87500 + 3 * seed) @@ ("Bachelor" :> -37500 - seed)
            @@ ("Master" :> 12500 - seed) @@ ("PhD" :> 112500 - seed)))
       @@ ("Job Title" :>
              (("Developer" :> -100000 + seed) @@ ("Data Scientist" :> 100000 + seed)
            @@ ("Manager" :> 200000 - 4 * seed) @@ ("Analyst" :> -150000 + seed)
            @@ ("Engineer" :> -50000 + seed))),
      intercept_ |-> 1015500 + 137 * seed ]

FittedPipelines == {fit(s) : s \in 0..MaxSeed}

\* OneHotEncoder.transform of one column: the indicator vector over the
\* fitted categories; an unknown value is all zeros under 'ignore' and an
\* error otherwise
OneHot(p, col, v) ==
    LET cats == p.categories_[col]
    IN  IF v \in cats
        THEN [ok |-> TRUE, vec |-> [c \in cats |-> IF c = v THEN 1 ELSE 0]]
        ELSE [ok |-> p.handle_unknown = "ignore", vec |-> [c \in cats |-> 0]]

\* StandardScaler.transform of one column
Scale(p, col, x) == Frac(x - p.mean_[col], p.scale_[col])

\* LinearRegression.predict on the transformed row
Regress(p, X, enc) ==
    LET num(col) == Mul(Frac(p.coef_num[col], 1), Scale(p, col, X[col]))
        cat(col) == SumOver(p.categories_[col],
                            [c \in p.categories_[col] |-> enc[col].vec[c] * p.coef_cat[col][c]])
    IN  Add(Add(num("Age"), num("Years of Experience")),
            Frac(p.intercept_ + cat("Gender") + cat("Education Level") + cat("Job Title"), 1))

\* a predict whose result moves with the calls made before it
predict_drifting(p, X) ==
    LET enc == [c \in categorical_features |-> OneHot(p, c, X[c])]
    IN  [raised |-> FALSE,
         value |-> Add(Regress(p, X, enc), Frac(between, 1)),
         encoded |-> enc]

\* pipeline.predict(X)[0] for a one-row X (a function from column names to
\* values): raises when a fitted column is missing or the encoder refuses a
\* value, otherwise one scalar
predict(p, X) ==
    IF ~(p.feature_names_in_ \subseteq DOMAIN X)
    THEN [raised |-> TRUE, value |-> Frac(0, 1), encoded |-> <<>>]
    ELSE LET enc == [c \in categorical_features |-> OneHot(p, c, X[c])]
         IN  IF \E c \in categorical_features : ~enc[c].ok
             THEN [raised |-> TRUE, value |-> Frac(0, 1), encoded |-> enc]
             ELSE [raised |-> FALSE, value |-> Regress(p, X, enc), encoded |-> enc]

-----------------------------------------------------------------------------
(* The form (app.py, main) *)

CurrencyOptions == {"₹ (INR)", "$ (USD)", "€ (EUR)"}
GenderOptions == {"Male", "Female"}
EducationOptions == {"High School", "Bachelor", "Master", "PhD"}
\* the form's list with a title the trainer does not draw
JobOptions_renamed ==
    {"Developer", "Data Scientist", "Manager", "Analyst", "Software Engineer"}

JobOptions == {"Developer", "Data Scientist", "Manager", "Analyst", "Engineer"}

\* st.number_input("Age", min_value=18, max_value=100, value=30)
AgeFieldMin == 18
AgeFieldMax == 100
AgeDefault == 30
\* st.slider("Years of Experience", min_value=0, max_value=50, value=5)
ExperienceFieldMin == 0
ExperienceFieldMax == 50
ExperienceDefault == 5

\* The ages and experiences the model's user enters: the ends of both
\* fields, the defaults, both sides of the enforced age bound 60, and both
\* sides of Age - 16 for the ages 18, 30 and 60
AgeInputs == {AgeFieldMin, AgeDefault, 60, 61, AgeFieldMax}
ExperienceInputs ==
    {ExperienceFieldMin, 2, 3, ExperienceDefault, 14, 15, 44, 45, ExperienceFieldMax}

\* the widget values of a fresh session
DefaultWidgets ==
    [ show_charts |-> TRUE, currency |-> "₹ (INR)", age |-> AgeDefault,
      gender |-> "Male", education_level |-> "Bachelor", job_title |-> "Developer",
      experience |-> ExperienceDefault ]

\* the table with the dollar and euro rates exchanged
currency_multipliers_swapped ==
    ("₹ (INR)" :> Frac(1, 1)) @@ ("$ (USD)" :> Frac(11, 1000)) @@ ("€ (EUR)" :> Frac(12, 1000))

currency_multipliers ==
    ("₹ (INR)" :> Frac(1, 1)) @@ ("$ (USD)" :> Frac(12, 1000)) @@ ("€ (EUR)" :> Frac(11, 1000))

\* currency.split()[0]
Symbol(currency) ==
    CASE currency = "₹ (INR)" -> "₹"
      [] currency = "$ (USD)" -> "$"
      [] currency = "€ (EUR)" -> "€"

\* pd.DataFrame({...}): the one-row feature table, by column name
input_df(w) ==
    ("Age" :> w.age) @@ ("Gender" :> w.gender)
 @@ ("Education Level" :> w.education_level) @@ ("Job Title" :> w.job_title)
 @@ ("Years of Experience" :> w.experience)

converted_salary(prediction, currency) == Mul(prediction, currency_multipliers[currency])

\* the three st.metric values, before and after formatting
Monthly(converted) == Div(converted, 12)
Hourly(converted) == Div(converted, 40 * 52)
Daily(converted) == Div(converted, 365)

\* the scatter chart's table with the prediction appended as "You", and the
\* role-distribution table of the pie chart
scatter_data(prediction, experience) ==
    << [role |-> "Developer", salary |-> Frac(800000, 1), experience |-> 3],
       [role |-> "Data Scientist", salary |-> Frac(1200000, 1), experience |-> 5],
       [role |-> "Manager", salary |-> Frac(1500000, 1), experience |-> 10],
       [role |-> "Analyst", salary |-> Frac(700000, 1), experience |-> 2],
       [role |-> "Engineer", salary |-> Frac(900000, 1), experience |-> 4],
       [role |-> "You", salary |-> prediction, experience |-> experience] >>

role_distribution ==
    ("Developer" :> 50) @@ ("Data Scientist" :> 20) @@ ("Manager" :> 15)
 @@ ("Analyst" :> 10) @@ ("Engineer" :> 5)

\* the report with the converted salary written in both salary fields
result_csv_converted_twice(w, prediction, converted) ==
    [ Age |-> w.age, Gender |-> w.gender, Education |-> w.education_level,
      Job_Title |-> w.job_title, Experience |-> w.experience,
      Predicted_Salary |-> CsvFloat(converted), Currency |-> w.currency,
      Converted_Salary |-> CsvFloat(converted) ]

\* result_data and result_df.to_csv(index=False): the row of the report
\* (Prediction_Date, the clock's reading, is left out)
result_csv(w, prediction, converted) ==
    [ Age |-> w.age, Gender |-> w.gender, Education |-> w.education_level,
      Job_Title |-> w.job_title, Experience |-> w.experience,
      Predicted_Salary |-> CsvFloat(prediction), Currency |-> w.currency,
      Converted_Salary |-> CsvFloat(converted) ]

\* the gate letting a run through when either check passed
blocked_when_both_fail(age_valid, exp_valid) == ~(age_valid \/ exp_valid)

\* if not (age_valid and exp_valid): the button's gate
blocked(age_valid, exp_valid) == ~(age_valid /\ exp_valid)

\* A run that rendered nothing below the validation column.  An element
\* that is not rendered is <<>>, a rendered one is <<value>>.
Page(model, clicked, av, ev, errors) ==
    [ model |-> model, clicked |-> clicked,
      age_valid |-> av.valid, age_msg |-> av.msg,
      exp_valid |-> ev.valid, exp_msg |-> ev.msg,
      errors |-> errors, predict_called |-> FALSE, raised |-> FALSE,
      input_df |-> <<>>, encoded |-> <<>>, prediction |-> <<>>,
      converted_salary |-> <<>>, card |-> <<>>,
      monthly |-> <<>>, hourly |-> <<>>, daily |-> <<>>, metrics |-> <<>>,
      charts |-> <<>>, download |-> <<>>, success |-> <<>> ]

\* before the first run
NoRun ==
    Page({}, FALSE, [valid |-> TRUE, msg |-> ""], [valid |-> TRUE, msg |-> ""], <<>>)

\* main() from the widgets on: validation, the button, the prediction and
\* everything rendered after it
main(model, w, clicked) ==
    LET av == validate_age(w.age)
        ev == validate_experience(w.experience, w.age)
        inline == (IF ~av.valid THEN <<av.msg>> ELSE <<>>)
                  \o (IF ~ev.valid THEN <<ev.msg>> ELSE <<>>)
    IN  IF ~clicked THEN Page(model, clicked, av, ev, inline)
        ELSE IF blocked(av.valid, ev.valid)
        THEN Page(model, clicked, av, ev, Append(inline, FixMsg))
        ELSE
          LET X == input_df(w)
              res == predict(model, X)
              prediction == res.value
              symbol == Symbol(w.currency)
              converted == converted_salary(prediction, w.currency)
          IN  IF res.raised
              THEN [Page(model, clicked, av, ev, inline) EXCEPT
                        !.predict_called = TRUE, !.raised = TRUE,
                        !.input_df = X, !.encoded = res.encoded]
              ELSE [Page(model, clicked, av, ev, inline) EXCEPT
                        !.predict_called = TRUE,
                        !.input_df = X,
                        !.encoded = res.encoded,
                        !.prediction = <<prediction>>,
                        !.converted_salary = <<converted>>,
                        !.card = <<FormatMoney(symbol, converted, TRUE)>>,
                        !.monthly = <<Monthly(converted)>>,
                        !.hourly = <<Hourly(converted)>>,
                        !.daily = <<Daily(converted)>>,
                        !.metrics = << FormatMoney(symbol, Monthly(converted), TRUE),
                                       FormatMoney(symbol, Hourly(converted), FALSE),
                                       FormatMoney(symbol, Daily(converted), FALSE) >>,
                        !.charts = IF w.show_charts
                                   THEN << scatter_data(prediction, w.experience),
                                           role_distribution >>
                                   ELSE <<>>,
                        !.download = <<result_csv(w, prediction, converted)>>,
                        !.success = <<SuccessMsg>>]

\* load_model without @st.cache_resource: every run reads the file
load_model_uncached ==
    [model |-> CHOOSE p \in file : TRUE, cache |-> cache,
     loads |-> Append(loads, CHOOSE p \in file : TRUE)]

\* @st.cache_resource load_model(): the body reads the file on the first
\* call only; later calls return the cached object
load_model ==
    IF cache = {}
    THEN [model |-> CHOOSE p \in file : TRUE, cache |-> file,
          loads |-> Append(loads, CHOOSE p \in file : TRUE)]
    ELSE [model |-> CHOOSE p \in cache : TRUE, cache |-> cache, loads |-> loads]

\* one execution of the script for the session: main() from its first line
Rerun(w, clicked) ==
    LET lm == load_model
    IN  /\ cache' = lm.cache
        /\ loads' = lm.loads
        /\ widgets' = w
        /\ out' = main(lm.model, w, clicked)
        /\ session' = "open"
        /\ UNCHANGED <<file, vcall, harnessVars, trainerVars>>

-----------------------------------------------------------------------------
(* The app's actions: every interaction reruns the script *)

FirstRun ==
    /\ session = "closed"
    /\ Rerun(widgets, FALSE)

SetShowCharts ==
    /\ session = "open"
    /\ Rerun([widgets EXCEPT !.show_charts = ~@], FALSE)

SetCurrency ==
    /\ session = "open"
    /\ \E c \in CurrencyOptions \ {widgets.currency} :
           Rerun([widgets EXCEPT !.currency = c], FALSE)

SetAge ==
    /\ session = "open"
    /\ \E a \in AgeInputs \ {widgets.age} :
           Rerun([widgets EXCEPT !.age = a], FALSE)

SetGender ==
    /\ session = "open"
    /\ \E g \in GenderOptions \ {widgets.gender} :
           Rerun([widgets EXCEPT !.gender = g], FALSE)

SetEducationLevel ==
    /\ session = "open"
    /\ \E e \in EducationOptions \ {widgets.education_level} :
           Rerun([widgets EXCEPT !.education_level = e], FALSE)

SetJobTitle ==
    /\ session = "open"
    /\ \E j \in JobOptions \ {widgets.job_title} :
           Rerun([widgets EXCEPT !.job_title = j], FALSE)

SetExperience ==
    /\ session = "open"
    /\ \E e \in ExperienceInputs \ {widgets.experience} :
           Rerun([widgets EXCEPT !.experience = e], FALSE)

\* st.button returns True in the run its click starts
ClickPredict ==
    /\ session = "open"
    /\ Rerun(widgets, TRUE)

\* st.download_button: shown after a prediction; its click reruns the
\* script with the predict button not clicked
ClickDownload ==
    /\ session = "open"
    /\ out.download # <<>>
    /\ Rerun(widgets, FALSE)

NoValidatorCall == [called |-> FALSE, age |-> 0, experience |-> 0,
                    age_result |-> [valid |-> FALSE, msg |-> ""],
                    exp_result |-> [valid |-> FALSE, msg |-> ""]]
NoPredictCall == [called |-> FALSE, X |-> <<>>, result |-> [raised |-> FALSE, value |-> Frac(0, 1), encoded |-> <<>>],
                  repeat |-> FALSE, after |-> 0]
NoRow == [Age |-> 0, Gender |-> "", Education_Level |-> "", Job_Title |-> "",
          Years_of_Experience |-> 0, noise |-> Frac(0, 1), Salary |-> Frac(0, 1)]

HarnessIdle ==
    /\ pipeline = {}
    /\ pcall = NoPredictCall
    /\ probe = [row |-> <<>>, first |-> <<>>]
    /\ between = 0

TrainerIdle ==
    /\ tpc = "idle"
    /\ data = NoRow

AppIdle ==
    /\ file = {}
    /\ cache = {}
    /\ loads = <<>>
    /\ session = "closed"
    /\ widgets = DefaultWidgets
    /\ out = NoRun

\* the server process has started on a file some run of the trainer wrote;
\* no session has run main() yet
Init ==
    /\ file \in {{p} : p \in FittedPipelines}
    /\ cache = {}
    /\ loads = <<>>
    /\ session = "closed"
    /\ widgets = DefaultWidgets
    /\ out = NoRun
    /\ vcall = NoValidatorCall
    /\ HarnessIdle
    /\ TrainerIdle

Next ==
    \/ FirstRun
    \/ SetShowCharts
    \/ SetCurrency
    \/ SetAge
    \/ SetGender
    \/ SetEducationLevel
    \/ SetJobTitle
    \/ SetExperience
    \/ ClickPredict
    \/ ClickDownload

Spec == Init /\ [][Next]_vars

-----------------------------------------------------------------------------
(* Direct calls of the validators, on integers the form cannot submit too *)

\* how far outside the form's ranges the arguments of a direct call go
Outside == 5

ValidatorAges == (AgeFieldMin - Outside)..(AgeFieldMax + Outside)
ValidatorExperiences == (ExperienceFieldMin - Outside)..(ExperienceFieldMax + Outside)

\* a test calls validate_age(age) and validate_experience(experience, age)
\* on the arguments it was set up with
CallValidators ==
    /\ session = "imported"
    /\ ~vcall.called
    /\ vcall' = [vcall EXCEPT !.called = TRUE,
                              !.age_result = validate_age(vcall.age),
                              !.exp_result = validate_experience(vcall.experience, vcall.age)]
    /\ UNCHANGED <<appVars, harnessVars, trainerVars>>

\* the module is either run as the app (Init) or imported for its two
\* functions, with the arguments of the call drawn
InitValidate ==
    \/ Init
    \/ /\ file = {}
       /\ cache = {}
       /\ loads = <<>>
       /\ session = "imported"
       /\ widgets = DefaultWidgets
       /\ out = NoRun
       /\ vcall \in {[NoValidatorCall EXCEPT !.age = a, !.experience = e] :
                        a \in ValidatorAges, e \in ValidatorExperiences}
       /\ HarnessIdle
       /\ TrainerIdle

NextValidate ==
    \/ Next
    \/ CallValidators

SpecValidate == InitValidate /\ [][NextValidate]_vars

-----------------------------------------------------------------------------
(* Repeated predict calls on the loaded pipeline *)

UnknownGender == "Other"
UnknownEducation == "Diploma"
UnknownJob == "Intern"

\* the rows predict is called on: in and out of the fitted vocabulary
PipelineRows ==
    { ("Age" :> a) @@ ("Gender" :> g) @@ ("Education Level" :> e)
      @@ ("Job Title" :> j) @@ ("Years of Experience" :> x) :
        a \in {AgeDefault, 60},
        g \in GenderChoices \cup {UnknownGender},
        e \in EducationChoices \cup {UnknownEducation},
        j \in JobChoices \cup {UnknownJob},
        x \in {ExperienceDefault} }

\* Age=30, Gender="Male", Education="Bachelor", Job Title="Developer",
\* Experience=5, and the same row with a job title the encoder never saw
ProbeRows ==
    { input_df(DefaultWidgets),
      input_df([DefaultWidgets EXCEPT !.job_title = UnknownJob]) }

\* model.predict(X)[0] on the pipeline object; the object is left as it is
CallPredict ==
    /\ pipeline # {}
    /\ \E X \in PipelineRows :
         LET p == CHOOSE q \in pipeline : TRUE
             res == predict(p, X)
             onProbe == X = probe.row
         IN  /\ pcall' = [called |-> TRUE, X |-> X, result |-> res,
                          repeat |-> onProbe /\ probe.first # <<>>,
                          after |-> between]
             /\ probe' = IF onProbe /\ probe.first = <<>>
                         THEN [probe EXCEPT !.first = <<res>>]
                         ELSE probe
             /\ between' = IF onProbe THEN 0
                           ELSE IF probe.first # <<>> /\ between < MaxBetween
                           THEN between + 1 ELSE between
    /\ UNCHANGED <<pipeline, appVars, vcall, trainerVars>>

\* joblib.load has returned the pipeline some run of the trainer dumped
InitPipeline ==
    /\ AppIdle
    /\ vcall = NoValidatorCall
    /\ TrainerIdle
    /\ pipeline \in {{p} : p \in FittedPipelines}
    /\ pcall = NoPredictCall
    /\ probe \in {[row |-> r, first |-> <<>>] : r \in ProbeRows}
    /\ between = 0

NextPipeline == CallPredict

SpecPipeline == InitPipeline /\ [][NextPipeline]_vars

-----------------------------------------------------------------------------
(* The trainer script (train_model.py) *)

\* np.random.randint(22, 60, 300) and np.random.randint(0, 35, 300): the
\* upper ends are exclusive
TrainAgeLow == 22
TrainAgeHigh == 60
TrainExperienceLow == 0
TrainExperienceHigh == 35

base_salary == 250000
NoiseStd == 50000

education_offset ==
    ("High School" :> 0) @@ ("Bachelor" :> 50000) @@ ("Master" :> 100000) @@ ("PhD" :> 200000)

\* the table with the Developer and Engineer offsets exchanged
job_offset_swapped ==
    ("Developer" :> 250000) @@ ("Data Scientist" :> 400000) @@ ("Manager" :> 500000)
 @@ ("Analyst" :> 150000) @@ ("Engineer" :> 200000)

job_offset ==
    ("Developer" :> 200000) @@ ("Data Scientist" :> 400000) @@ ("Manager" :> 500000)
 @@ ("Analyst" :> 150000) @@ ("Engineer" :> 250000)

\* np.random.normal(0, 50000): thirds of a standard deviation
NoiseChoices == {Frac(k * NoiseStd, 3) : k \in (-MaxNoise)..MaxNoise}

\* data["Salary"] of one row
Salary(age, education, job, experience, noise) ==
    Add(Frac(base_salary + age * 3000 + experience * 15000
             + education_offset[education] + job_offset[job], 1),
        noise)

\* the DataFrame is drawn and its Salary column computed; data is any one
\* of its 300 rows
GenerateData ==
    /\ tpc = "start"
    /\ \E a \in TrainAgeLow..(TrainAgeHigh - 1), g \in GenderChoices,
          e \in EducationChoices, j \in JobChoices,
          x \in TrainExperienceLow..(TrainExperienceHigh - 1), n \in NoiseChoices :
           data' = [Age |-> a, Gender |-> g, Education_Level |-> e, Job_Title |-> j,
                    Years_of_Experience |-> x, noise |-> n,
                    Salary |-> Salary(a, e, j, x, n)]
    /\ tpc' = "data"
    /\ UNCHANGED <<appVars, vcall, harnessVars>>

\* pipeline.fit(X, y), joblib.dump(pipeline, ...) and the end of the script:
\* the file is what remains
FitAndDump ==
    /\ tpc = "data"
    /\ \E s \in 0..MaxSeed : file' = {fit(s)}
    /\ tpc' = "done"
    /\ data' = NoRow
    /\ UNCHANGED <<cache, loads, session, widgets, out, vcall, harnessVars>>

InitTrainer ==
    /\ AppIdle
    /\ vcall = NoValidatorCall
    /\ HarnessIdle
    /\ tpc = "start"
    /\ data = NoRow

NextTrainer ==
    \/ GenerateData
    \/ FitAndDump

SpecTrainer == InitTrainer /\ [][NextTrainer]_vars

-----------------------------------------------------------------------------
(* Properties *)

\* the amount a formatted text shows
Shown(text) == Frac(text.hundredths, 100)

\* |hundredths/100 - q| <= 0.005, for q >= 0
WithinHalfCent(hundredths, q) ==
    LET whole == q.num \div q.den
        r == q.num % q.den
        c == hundredths - 100 * whole
    IN  2 * Abs(c * q.den - 100 * r) <= q.den

\* C1: for the ages and experiences the form can submit, both checks pass
\* exactly when 18 <= Age <= 60 and 0 <= Experience <= Age - 16; on every
\* call validate_age fails exactly outside [18, 60] and
\* validate_experience exactly when Experience < 0 or Experience > Age - 16.
\* The same holds of the flags a run of main() computes from the widgets.
C1_ValidationRanges ==
    /\ vcall.called =>
         /\ (vcall.age \in AgeFieldMin..AgeFieldMax
               /\ vcall.experience \in ExperienceFieldMin..ExperienceFieldMax)
            => ((vcall.age_result.valid /\ vcall.exp_result.valid)
                  <=> (18 <= vcall.age /\ vcall.age <= 60
                         /\ 0 <= vcall.experience /\ vcall.experience <= vcall.age - 16))
         /\ ~vcall.age_result.valid <=> (vcall.age < 18 \/ vcall.age > 60)
         /\ ~vcall.exp_result.valid
              <=> (vcall.experience < 0 \/ vcall.experience > vcall.age - 16)
    /\ session = "open" =>
         /\ out.age_valid <=> (18 <= widgets.age /\ widgets.age <= 60)
         /\ out.exp_valid
              <=> (0 <= widgets.experience /\ widgets.experience <= widgets.age - 16)

\* a direct call on the largest accepted age with the largest experience it allows
C1_Witness ==
    /\ vcall.called
    /\ vcall.age = 60
    /\ vcall.experience = 44
    /\ vcall.age_result.valid
    /\ vcall.exp_result.valid

\* C2: predict is invoked, and the result card, the metrics, the download
\* and the success message are rendered, only in a run whose button was
\* clicked and whose two checks passed; a run with a failed check renders
\* error messages only, raises nothing and produces no prediction.
C2_PredictionGated ==
    /\ (out.predict_called \/ out.prediction # <<>> \/ out.card # <<>>
          \/ out.metrics # <<>> \/ out.charts # <<>> \/ out.download # <<>>
          \/ out.success # <<>>)
       => /\ out.clicked
          /\ out.age_valid
          /\ out.exp_valid
          /\ 18 <= widgets.age /\ widgets.age <= 60
          /\ 0 <= widgets.experience /\ widgets.experience <= widgets.age - 16
    /\ (session = "open" /\ ~(out.age_valid /\ out.exp_valid))
       => /\ ~out.raised
          /\ ~out.predict_called
          /\ out.prediction = <<>> /\ out.card = <<>> /\ out.metrics = <<>>
          /\ out.download = <<>> /\ out.success = <<>>
          /\ out.errors # <<>>
          /\ \A i \in 1..Len(out.errors) :
                 out.errors[i] \in {AgeMsg, NegativeMsg, ExceedMsg, FixMsg}
          /\ (\E i \in 1..Len(out.errors) : out.errors[i] = FixMsg) <=> out.clicked

\* the button was clicked with the experience check failing
C2_Witness ==
    /\ session = "open"
    /\ out.clicked
    /\ out.age_valid
    /\ ~out.exp_valid
    /\ out.errors = <<ExceedMsg, FixMsg>>
    /\ ~out.predict_called

\* C3: converted = raw x multiplier with multiplier 1 (INR), 0.012 (USD),
\* 0.011 (EUR); monthly x 12, hourly x 2080 and daily x 365 each give back
\* converted; the raw prediction is the same whichever currency is chosen.
C3_Conversion ==
    out.prediction # <<>> =>
       LET raw == out.prediction[1]
           conv == out.converted_salary[1]
           m == CASE widgets.currency = "₹ (INR)" -> Frac(1, 1)
                  [] widgets.currency = "$ (USD)" -> Frac(12, 1000)
                  [] widgets.currency = "€ (EUR)" -> Frac(11, 1000)
       IN  /\ conv = Mul(raw, m)
           /\ Mul(out.monthly[1], Frac(12, 1)) = conv
           /\ Mul(out.hourly[1], Frac(2080, 1)) = conv
           /\ Mul(out.daily[1], Frac(365, 1)) = conv
           /\ "Currency" \notin DOMAIN out.input_df
           /\ \A c \in CurrencyOptions :
                  main(out.model, [widgets EXCEPT !.currency = c], TRUE).prediction
                    = <<raw>>

\* a prediction shown in dollars
C3_Witness ==
    /\ out.prediction # <<>>
    /\ widgets.currency = "$ (USD)"
    /\ out.converted_salary # out.prediction
    /\ out.monthly[1] # out.converted_salary[1]

\* C4 as stated: the exported Predicted_Salary and Converted_Salary equal
\* the displayed values, and the other fields the submitted form values.
C4_CsvEqualsDisplayed ==
    out.download # <<>> =>
       LET row == out.download[1]
           displayed == {Shown(out.card[1])}
                        \cup (IF out.charts # <<>>
                              THEN {out.charts[1][6].salary} ELSE {})
       IN  /\ row.Age = widgets.age
           /\ row.Gender = widgets.gender
           /\ row.Education = widgets.education_level
           /\ row.Job_Title = widgets.job_title
           /\ row.Experience = widgets.experience
           /\ row.Currency = widgets.currency
           /\ row.Converted_Salary = Shown(out.card[1])
           /\ row.Predicted_Salary \in displayed

\* C4, amended: the exported Predicted_Salary is the raw prediction and the
\* exported Converted_Salary the unrounded converted salary; the displayed
\* amount is Converted_Salary rounded to two decimals (within 0.005 of it);
\* the other fields equal the submitted form values and the chosen currency.
C4_CsvRoundTrip ==
    out.download # <<>> =>
       LET row == out.download[1]
       IN  /\ row.Age = widgets.age
           /\ row.Gender = widgets.gender
           /\ row.Education = widgets.education_level
           /\ row.Job_Title = widgets.job_title
           /\ row.Experience = widgets.experience
           /\ row.Currency = widgets.currency
           /\ row.Predicted_Salary = out.prediction[1]
           /\ row.Converted_Salary = out.converted_salary[1]
           /\ row.Age = out.input_df["Age"]
           /\ row.Experience = out.input_df["Years of Experience"]
           /\ WithinHalfCent(out.card[1].hundredths, row.Converted_Salary)

\* a report whose converted salary has more than two decimals
C4_Witness ==
    /\ out.download # <<>>
    /\ widgets.currency = "$ (USD)"
    /\ out.download[1].Converted_Salary # Shown(out.card[1])

C6_LoadedOnce ==
    /\ Len(loads) <= 1
    /\ session = "open" =>
         /\ Len(loads) = 1
         /\ cache = {loads[1]}
         /\ out.model = loads[1]
         /\ file = {loads[1]}

\* a rerun after a prediction, served from the cache
C6_Witness ==
    /\ session = "open"
    /\ out.download # <<>>
    /\ out.clicked
    /\ Len(loads) = 1
    /\ out.model \in cache

\* C7: a row with a Gender, Education Level or Job Title outside the fitted
\* vocabulary raises nothing; that column is encoded as all zeros and
\* contributes nothing, and predict returns one scalar.
C7_UnknownCategoryIgnored ==
    pcall.called =>
       LET p == CHOOSE q \in pipeline : TRUE
           X == pcall.X
           unknown == {c \in categorical_features : X[c] \notin TrainVocabulary(c)}
           known == categorical_features \ unknown
           contribution == [c \in known |-> p.coef_cat[c][X[c]]]
           numeric(col) == Frac(p.coef_num[col] * (X[col] - p.mean_[col]), p.scale_[col])
       IN  unknown # {} =>
             /\ ~pcall.result.raised
             /\ \A c \in unknown :
                    \A k \in DOMAIN pcall.result.encoded[c].vec :
                        pcall.result.encoded[c].vec[k] = 0
             /\ pcall.result.value.den > 0
             /\ pcall.result.value
                  = Add(Add(numeric("Age"), numeric("Years of Experience")),
                        Frac(p.intercept_ + SumOver(known, contribution), 1))

\* predict called on a row whose job title the trainer never draws
C7_Witness ==
    /\ pcall.called
    /\ pcall.X["Job Title"] = UnknownJob
    /\ pcall.X["Gender"] \in GenderChoices
    /\ ~pcall.result.raised

\* C8: for every generated row, Salary minus its noise term is
\* 250000 + Age x 3000 + Experience x 15000 + education offset + job offset,
\* with Age in 22..59 and Experience in 0..34; Gender has no term.
C8_SalaryFormula ==
    tpc = "data" =>
       LET edu == CASE data.Education_Level = "High School" -> 0
                    [] data.Education_Level = "Bachelor" -> 50000
                    [] data.Education_Level = "Master" -> 100000
                    [] data.Education_Level = "PhD" -> 200000
           job == CASE data.Job_Title = "Developer" -> 200000
                    [] data.Job_Title = "Data Scientist" -> 400000
                    [] data.Job_Title = "Manager" -> 500000
                    [] data.Job_Title = "Analyst" -> 150000
                    [] data.Job_Title = "Engineer" -> 250000
       IN  /\ data.Age \in 22..59
           /\ data.Years_of_Experience \in 0..34
           /\ data.Gender \in {"Male", "Female"}
           /\ Add(data.Salary, Frac(-data.noise.num, data.noise.den))
                = Frac(250000 + data.Age * 3000 + data.Years_of_Experience * 15000
                       + edu + job, 1)

\* a generated row with a noise term
C8_Witness ==
    /\ tpc = "data"
    /\ data.Gender = "Female"
    /\ data.Education_Level = "PhD"
    /\ data.Job_Title = "Manager"
    /\ data.Age = 59
    /\ data.Years_of_Experience = 34
    /\ data.noise.num < 0

\* C9: validate_age always returns the message "Age must be between 18 and
\* 100" while enforcing 60: every age in 61..100 is invalid with that
\* message, and in the app it blocks the prediction; a negative experience
\* gets "Experience cannot be negative" even when it also exceeds Age - 16;
\* a valid experience gets the empty message.
C9_Messages ==
    /\ vcall.called =>
         /\ vcall.age_result.msg = "Age must be between 18 and 100"
         /\ vcall.age \in 61..100 => ~vcall.age_result.valid
         /\ vcall.experience < 0
              => vcall.exp_result
                   = [valid |-> FALSE, msg |-> "Experience cannot be negative"]
         /\ vcall.exp_result.valid => vcall.exp_result.msg = ""
    /\ session = "open" =>
         /\ out.age_msg = "Age must be between 18 and 100"
         /\ widgets.age \in 61..100 =>
              /\ ~out.age_valid
              /\ out.errors # <<>>
              /\ out.errors[1] = "Age must be between 18 and 100"
              /\ ~out.predict_called
              /\ out.prediction = <<>>
         /\ out.exp_valid => out.exp_msg = ""

\* the button clicked with Age 100, which the Age field accepts
C9_Witness ==
    /\ session = "open"
    /\ widgets.age = 100
    /\ out.clicked
    /\ out.exp_valid
    /\ out.errors = <<AgeMsg, FixMsg>>

\* C10: every row passed to predict has exactly the five training columns,
\* every categorical value the form submits is in the vocabulary the trainer
\* draws from, and no prediction made through the form is encoded as all
\* zeros in any column.
C10_SchemaLockstep ==
    /\ widgets.gender \in GenderChoices
    /\ widgets.education_level \in EducationChoices
    /\ widgets.job_title \in JobChoices
    /\ out.predict_called =>
         /\ DOMAIN out.input_df
              = {"Age", "Gender", "Education Level", "Job Title", "Years of Experience"}
         /\ DOMAIN out.input_df = XColumns
         /\ DOMAIN out.input_df = out.model.feature_names_in_
         /\ ~out.raised
         /\ \A c \in categorical_features :
                /\ out.input_df[c] \in out.model.categories_[c]
                /\ SumOver(DOMAIN out.encoded[c].vec, out.encoded[c].vec) = 1

\* a prediction for the last job title of the form's list
C10_Witness ==
    /\ out.predict_called
    /\ out.prediction # <<>>
    /\ widgets.job_title = "Engineer"
    /\ widgets.education_level = "PhD"
    /\ widgets.gender = "Female"

====
